---- MODULE Spec2Model ----
(***************************************************************************)
(* Model of the WixRemoveRegistryKeyEx custom action                       *)
(* (src/ext/ca/wixca/dll/RemoveRegistryKeyEx.cpp).                         *)
(*                                                                         *)
(* The action scans the WixRemoveRegistryKeyEx table one record at a time, *)
(* filters each record by its condition and stages one temporary row in    *)
(* the RemoveRegistry or the Registry table according to InstallMode.      *)
(* Every call into the installer engine may fail; a failure is an input    *)
(* chosen by the environment.                                              *)
(***************************************************************************)
EXTENDS Integers, Sequences, FiniteSets, TLC

\* Largest number of rows of the WixRemoveRegistryKeyEx table explored.
MaxRows == 2

----------------------------------------------------------------------------
\* Values of the rule table's columns.

\* Component_ / Root / Key of a rule (the values of the spec's scenarios).
Payloads ==
    { [component |-> "C1", root |-> 2, key |-> "SOFTWARE\\X"],
      [component |-> "C2", root |-> 0, key |-> "SOFTWARE\\Y"] }

\* InstallMode: 1 removeOnInstall, 2 removeOnUninstall, 3 unrecognized.
Modes == {1, 2, 3}

\* Condition: empty, or an expression the engine finds true, false, invalid.
Conditions == {"", "1", "0", "1 +"}

\* The primary key of the i-th row.
RuleId(i) == "R" \o ToString(i)

\* One row of the query of lines 5-6.
MkRule(i, p, m, c) ==
    [id |-> RuleId(i), component |-> p.component, root |-> p.root,
     key |-> p.key, mode |-> m, condition |-> c]

\* All tables of n rows.
TablesOfLen(n) ==
    { [i \in 1..n |-> MkRule(i, f[i][1], f[i][2], f[i][3])] :
        f \in [1..n -> Payloads \X Modes \X Conditions] }

----------------------------------------------------------------------------
VARIABLES
    tableExists,    \* the WixRemoveRegistryKeyEx table is in the database
    table,          \* its rows, in cursor order
    pc,             \* position of the action in its code
    hr,             \* HRESULT hr
    hView,          \* PMSIHANDLE hView
    hRec,           \* PMSIHANDLE hRec
    sczId, sczComponent, sczCondition, sczKey,   \* LPWSTR locals
    iRoot, iMode,   \* int locals
    hTable,         \* MSIHANDLE hTable
    hColumns,       \* MSIHANDLE hColumns
    cursor,         \* number of records the view has yielded
    RemoveRegistry, \* temporary rows staged in the RemoveRegistry table
    Registry,       \* temporary rows staged in the Registry table
    er,             \* status handed to WcaFinalize
    \* history of the calls made into the engine
    evalLog,        \* rows MsiEvaluateConditionW was called for
    readLog,        \* <<row, column>> of every column read, in order
    addLog,         \* [row, table, ok] of every WcaAddTempRecord call
    fetchCalls,     \* number of WcaFetchRecord calls
    failedAt,       \* the step that failed and the row it failed on
    tableChecks,    \* number of WcaTableExists calls
    hAcquired,      \* the handles the engine has handed to the action
    hReleased       \* the handles closed, in the order of their closing

vars == << tableExists, table, pc, hr, hView, hRec, sczId, sczComponent,
           sczCondition, sczKey, iRoot, iMode, hTable, hColumns, cursor,
           RemoveRegistry, Registry, er, evalLog, readLog, addLog,
           fetchCalls, failedAt, tableChecks, hAcquired, hReleased >>

handleLog == << hAcquired, hReleased >>
locals  == << sczId, sczComponent, sczCondition, sczKey, iRoot, iMode >>
staging == << RemoveRegistry, Registry, hTable, hColumns >>
input   == << tableExists, table >>

NoFailure == [step |-> "none", row |-> 0]

\* Names of the handles: the view, the two staging handles and the record
\* of the n-th row.
ViewHandle == << "hView", 0 >>
TableHandle == << "hTable", 0 >>
ColumnsHandle == << "hColumns", 0 >>
RecHandle(n) == << "hRec", n >>

----------------------------------------------------------------------------
\* HRESULT and MSICONDITION helpers.

\* FAILED(hr) of ExitOnFailure.
FAILED(h) == h \notin {"S_OK", "S_FALSE"}

SUCCEEDED(h) == ~FAILED(h)

\* ::MsiEvaluateConditionW on the expressions of Conditions.
MsiEvaluateCondition(c) ==
    CASE c = ""    -> "MSICONDITION_NONE"
      [] c = "1"   -> "MSICONDITION_TRUE"
      [] c = "0"   -> "MSICONDITION_FALSE"
      [] OTHER     -> "MSICONDITION_ERROR"

\* Variant: the test for the empty string is left out.
NeedsEvaluation_NonNull(c) == c # "NULL"

\* Line 48: the condition is evaluated only when it is a non-empty string.
NeedsEvaluation(c) == c # "NULL" /\ c # ""

\* Variant: only MSICONDITION_FALSE skips; an invalid condition is processed.
ConditionApplies_InvalidProcessed(c) ==
    IF NeedsEvaluation(c)
    THEN MsiEvaluateCondition(c) # "MSICONDITION_FALSE"
    ELSE TRUE

\* Lines 48-60: the row is processed (TRUE) or skipped (FALSE).
ConditionApplies(c) ==
    IF NeedsEvaluation(c)
    THEN MsiEvaluateCondition(c) = "MSICONDITION_TRUE"
    ELSE TRUE

\* WcaTableExists: S_OK when the table exists, S_FALSE when it does not.
WcaTableExists == IF tableExists THEN "S_OK" ELSE "S_FALSE"

\* Variant: both cases stage in RemoveRegistry.
SwitchTable_OneTable(m) ==
    CASE m = 1 -> "RemoveRegistry"
      [] m = 2 -> "RemoveRegistry"
      [] OTHER -> "none"

\* Variant: the second case is a default case.
SwitchTable_Default(m) ==
    CASE m = 1 -> "RemoveRegistry"
      [] OTHER -> "Registry"

\* Lines 74-86: the table the switch names for a mode ("none": no case).
SwitchTable(m) ==
    CASE m = 1 -> "RemoveRegistry"
      [] m = 2 -> "Registry"
      [] OTHER -> "none"

\* Variant: key and component handed over in each other's place.
RemoveRegistryRow_Swapped(id, root, key, component) ==
    << id, root, component, "-", key >>

\* Line 78: the 5 values handed to WcaAddTempRecord for RemoveRegistry.
RemoveRegistryRow(id, root, key, component) ==
    << id, root, key, "-", component >>

\* Variant: the NULL value is left out, 5 values as for RemoveRegistry.
RegistryRow_NoValueSlot(id, root, key, component) ==
    << id, root, key, "-", component >>

\* Line 83: the 6 values handed to WcaAddTempRecord for Registry.
RegistryRow(id, root, key, component) ==
    << id, root, key, "-", "NULL", component >>

\* Variant: the end of the list is not turned into success.
AfterLoop_KeepsNoMoreItems(h) == h

\* Lines 90-93: E_NOMOREITEMS after the loop is turned into S_OK.
AfterLoop(h) == IF h = "E_NOMOREITEMS" THEN "S_OK" ELSE h

\* Line 112: the status handed to WcaFinalize.
ExitStatus(h) ==
    IF SUCCEEDED(h) THEN "ERROR_SUCCESS" ELSE "ERROR_INSTALL_FAILURE"

\* Variant: a handle that is set is not closed.
Release_Never(h, id, log) == log

\* Lines 97-105, and PMSIHANDLE's destructor and operator&: a handle that
\* is set is closed.
Release(h, id, log) == IF h # "NULL" THEN Append(log, id) ELSE log

\* WcaAddTempRecord, successful: the row is inserted in the table named by
\* wzTable, whatever view *phTableView already holds.
WcaAddTempRecordTable(phTableView, wzTable) == wzTable

----------------------------------------------------------------------------
Init ==
    /\ tableExists \in BOOLEAN
    /\ table \in IF tableExists
                 THEN UNION { TablesOfLen(n) : n \in 0..MaxRows }
                 ELSE { << >> }
    /\ pc = "Initialize"
    /\ hr = "S_OK"
    /\ hView = "NULL" /\ hRec = "NULL"
    /\ sczId = "NULL" /\ sczComponent = "NULL"
    /\ sczCondition = "NULL" /\ sczKey = "NULL"
    /\ iRoot = 0 /\ iMode = 0
    /\ hTable = "NULL" /\ hColumns = "NULL"
    /\ cursor = 0
    /\ RemoveRegistry = << >> /\ Registry = << >>
    /\ er = "none"
    /\ evalLog = << >> /\ readLog = << >> /\ addLog = << >>
    /\ fetchCalls = 0
    /\ failedAt = NoFailure
    /\ tableChecks = 0
    /\ hAcquired = {} /\ hReleased = << >>

\* Variant: the failure is recorded but the loop goes on to the next fetch.
Fail_NoJump(step) ==
    /\ hr' = "E_FAIL"
    /\ pc' = "FetchRecord"
    /\ failedAt' = [step |-> step, row |-> cursor]

\* ExitOnFailure after a failed call: record the failure and jump to LExit.
Fail(step) ==
    /\ hr' = "E_FAIL"
    /\ pc' = "LExit"
    /\ failedAt' = [step |-> step, row |-> cursor]

\* Variant: the result of WcaInitialize is not checked.
Initialize_Unchecked ==
    /\ pc = "Initialize"
    /\ \/ /\ hr' = "S_OK"
          /\ pc' = "TableExists"
          /\ UNCHANGED failedAt
       \/ /\ hr' = "E_FAIL"
          /\ pc' = "TableExists"
          /\ failedAt' = [step |-> "Initialize", row |-> cursor]
    /\ UNCHANGED << input, hView, hRec, locals, staging, cursor, er,
                    evalLog, readLog, addLog, fetchCalls >>
    /\ UNCHANGED << tableChecks, handleLog >>

\* Lines 27-28.
Initialize ==
    /\ pc = "Initialize"
    /\ \/ /\ hr' = "S_OK"
          /\ pc' = "TableExists"
          /\ UNCHANGED failedAt
       \/ Fail("Initialize")
    /\ UNCHANGED << input, hView, hRec, locals, staging, cursor, er,
                    evalLog, readLog, addLog, fetchCalls >>
    /\ UNCHANGED << tableChecks, handleLog >>

\* Variant: the result of the existence check is not looked at.
TableExists_Unchecked ==
    /\ pc = "TableExists"
    /\ pc' = "OpenExecuteView"
    /\ UNCHANGED << input, hr, hView, hRec, locals, staging, cursor, er,
                    evalLog, readLog, addLog, fetchCalls, failedAt >>
    /\ tableChecks' = tableChecks + 1
    /\ UNCHANGED handleLog

\* Lines 30-35.
TableExists ==
    /\ pc = "TableExists"
    /\ IF "S_OK" # WcaTableExists
       THEN pc' = "LExit"
       ELSE pc' = "OpenExecuteView"
    /\ UNCHANGED << input, hr, hView, hRec, locals, staging, cursor, er,
                    evalLog, readLog, addLog, fetchCalls, failedAt >>
    /\ tableChecks' = tableChecks + 1
    /\ UNCHANGED handleLog

\* Lines 37-38.  A failing WcaOpenExecuteView may have opened the view
\* before failing to execute it.
OpenExecuteView ==
    /\ pc = "OpenExecuteView"
    /\ \/ /\ hr' = "S_OK"
          /\ hView' = "open"
          /\ pc' = "FetchRecord"
          /\ UNCHANGED failedAt
       \/ /\ Fail("OpenExecuteView")
          /\ hView' \in {"NULL", "open"}
    /\ UNCHANGED << input, hRec, locals, staging, cursor, er,
                    evalLog, readLog, addLog, fetchCalls >>
    /\ hAcquired' = IF hView' = "open" THEN hAcquired \cup {ViewHandle}
                    ELSE hAcquired
    /\ UNCHANGED << tableChecks, hReleased >>

\* Line 40.  &hRec releases the record of the previous iteration.
FetchRecord ==
    /\ pc = "FetchRecord"
    /\ fetchCalls' = fetchCalls + 1
    /\ \/ /\ cursor < Len(table)
          /\ hr' = "S_OK"
          /\ cursor' = cursor + 1
          /\ hRec' = "open"
          /\ pc' = "GetId"
          /\ UNCHANGED failedAt
       \/ /\ cursor = Len(table)
          /\ hr' = "E_NOMOREITEMS"
          /\ hRec' = "NULL"
          /\ pc' = "AfterLoop"
          /\ UNCHANGED << cursor, failedAt >>
       \/ /\ hr' = "E_FAIL"
          /\ hRec' = "NULL"
          /\ pc' = "AfterLoop"
          /\ failedAt' = [step |-> "FetchRecord", row |-> cursor + 1]
          /\ UNCHANGED cursor
    /\ UNCHANGED << input, hView, locals, staging, er,
                    evalLog, readLog, addLog >>
    /\ hReleased' = Release(hRec, RecHandle(cursor), hReleased)
    /\ hAcquired' = IF hRec' = "open" THEN hAcquired \cup {RecHandle(cursor')}
                    ELSE hAcquired
    /\ UNCHANGED tableChecks

\* Lines 42-43.
GetId ==
    /\ pc = "GetId"
    /\ readLog' = Append(readLog, << cursor, "Id" >>)
    /\ \/ /\ hr' = "S_OK"
          /\ sczId' = table[cursor].id
          /\ pc' = "GetCondition"
          /\ UNCHANGED failedAt
       \/ /\ Fail("GetId")
          /\ UNCHANGED sczId
    /\ UNCHANGED << input, hView, hRec, sczComponent, sczCondition, sczKey,
                    iRoot, iMode, staging, cursor, er, evalLog, addLog,
                    fetchCalls >>
    /\ UNCHANGED << tableChecks, handleLog >>

\* Variant: the condition is read but the test of lines 48-60 is missing.
GetCondition_NoTest ==
    /\ pc = "GetCondition"
    /\ readLog' = Append(readLog, << cursor, "Condition" >>)
    /\ \/ /\ hr' = "S_OK"
          /\ sczCondition' = table[cursor].condition
          /\ pc' = "GetComponent"
          /\ UNCHANGED failedAt
       \/ /\ Fail("GetCondition")
          /\ UNCHANGED sczCondition
    /\ UNCHANGED << input, hView, hRec, sczId, sczComponent, sczKey,
                    iRoot, iMode, staging, cursor, er, evalLog, addLog,
                    fetchCalls >>
    /\ UNCHANGED << tableChecks, handleLog >>

\* Lines 45-46.
GetCondition ==
    /\ pc = "GetCondition"
    /\ readLog' = Append(readLog, << cursor, "Condition" >>)
    /\ \/ /\ hr' = "S_OK"
          /\ sczCondition' = table[cursor].condition
          /\ pc' = "CheckCondition"
          /\ UNCHANGED failedAt
       \/ /\ Fail("GetCondition")
          /\ UNCHANGED sczCondition
    /\ UNCHANGED << input, hView, hRec, sczId, sczComponent, sczKey,
                    iRoot, iMode, staging, cursor, er, evalLog, addLog,
                    fetchCalls >>
    /\ UNCHANGED << tableChecks, handleLog >>

\* Variant: the continue is taken on a true condition too, before the
\* row is translated.
CheckCondition_ContinueOnTrue ==
    /\ pc = "CheckCondition"
    /\ evalLog' = IF NeedsEvaluation(sczCondition)
                  THEN Append(evalLog, cursor)
                  ELSE evalLog
    /\ IF NeedsEvaluation(sczCondition)
       THEN pc' = "FetchRecord"
       ELSE pc' = "GetComponent"
    /\ UNCHANGED << input, hr, hView, hRec, locals, staging, cursor, er,
                    readLog, addLog, fetchCalls, failedAt >>
    /\ UNCHANGED << tableChecks, handleLog >>

\* Lines 48-60.
CheckCondition ==
    /\ pc = "CheckCondition"
    /\ evalLog' = IF NeedsEvaluation(sczCondition)
                  THEN Append(evalLog, cursor)
                  ELSE evalLog
    /\ IF ConditionApplies(sczCondition)
       THEN pc' = "GetComponent"
       ELSE pc' = "FetchRecord"
    /\ UNCHANGED << input, hr, hView, hRec, locals, staging, cursor, er,
                    readLog, addLog, fetchCalls, failedAt >>
    /\ UNCHANGED << tableChecks, handleLog >>

\* Lines 62-63.
GetComponent ==
    /\ pc = "GetComponent"
    /\ readLog' = Append(readLog, << cursor, "Component_" >>)
    /\ \/ /\ hr' = "S_OK"
          /\ sczComponent' = table[cursor].component
          /\ pc' = "GetRoot"
          /\ UNCHANGED failedAt
       \/ /\ Fail("GetComponent")
          /\ UNCHANGED sczComponent
    /\ UNCHANGED << input, hView, hRec, sczId, sczCondition, sczKey,
                    iRoot, iMode, staging, cursor, er, evalLog, addLog,
                    fetchCalls >>
    /\ UNCHANGED << tableChecks, handleLog >>

\* Lines 65-66.
GetRoot ==
    /\ pc = "GetRoot"
    /\ readLog' = Append(readLog, << cursor, "Root" >>)
    /\ \/ /\ hr' = "S_OK"
          /\ iRoot' = table[cursor].root
          /\ pc' = "GetKey"
          /\ UNCHANGED failedAt
       \/ /\ Fail("GetRoot")
          /\ UNCHANGED iRoot
    /\ UNCHANGED << input, hView, hRec, sczId, sczComponent, sczCondition,
                    sczKey, iMode, staging, cursor, er, evalLog, addLog,
                    fetchCalls >>
    /\ UNCHANGED << tableChecks, handleLog >>

\* Variant: the key is read only while sczKey is still NULL.
GetKey_KeepsFirst ==
    /\ pc = "GetKey"
    /\ readLog' = Append(readLog, << cursor, "Key" >>)
    /\ \/ /\ hr' = "S_OK"
          /\ sczKey' = IF sczKey = "NULL" THEN table[cursor].key ELSE sczKey
          /\ pc' = "GetMode"
          /\ UNCHANGED failedAt
       \/ /\ Fail("GetKey")
          /\ UNCHANGED sczKey
    /\ UNCHANGED << input, hView, hRec, sczId, sczComponent, sczCondition,
                    iRoot, iMode, staging, cursor, er, evalLog, addLog,
                    fetchCalls >>
    /\ UNCHANGED << tableChecks, handleLog >>

\* Lines 68-69.
GetKey ==
    /\ pc = "GetKey"
    /\ readLog' = Append(readLog, << cursor, "Key" >>)
    /\ \/ /\ hr' = "S_OK"
          /\ sczKey' = table[cursor].key
          /\ pc' = "GetMode"
          /\ UNCHANGED failedAt
       \/ /\ Fail("GetKey")
          /\ UNCHANGED sczKey
    /\ UNCHANGED << input, hView, hRec, sczId, sczComponent, sczCondition,
                    iRoot, iMode, staging, cursor, er, evalLog, addLog,
                    fetchCalls >>
    /\ UNCHANGED << tableChecks, handleLog >>

\* Lines 71-72.
GetMode ==
    /\ pc = "GetMode"
    /\ readLog' = Append(readLog, << cursor, "InstallMode" >>)
    /\ \/ /\ hr' = "S_OK"
          /\ iMode' = table[cursor].mode
          /\ pc' = "Switch"
          /\ UNCHANGED failedAt
       \/ /\ Fail("GetMode")
          /\ UNCHANGED iMode
    /\ UNCHANGED << input, hView, hRec, sczId, sczComponent, sczCondition,
                    sczKey, iRoot, staging, cursor, er, evalLog, addLog,
                    fetchCalls >>
    /\ UNCHANGED << tableChecks, handleLog >>

\* Variant: case 1 has no break and runs on into case 2.
AddSucceeded_FallThrough ==
    /\ hr' = "S_OK"
    /\ RemoveRegistry' = IF SwitchTable(iMode) = "RemoveRegistry"
                         THEN Append(RemoveRegistry,
                                RemoveRegistryRow(sczId, iRoot, sczKey,
                                                  sczComponent))
                         ELSE RemoveRegistry
    /\ Registry' = Append(Registry,
                          RegistryRow(sczId, iRoot, sczKey, sczComponent))
    /\ hTable' = "open"
    /\ hColumns' = "open"
    /\ addLog' = Append(addLog, [row |-> cursor, table |-> SwitchTable(iMode),
                                 ok |-> TRUE])
    /\ pc' = "FetchRecord"
    /\ UNCHANGED failedAt

\* Lines 78 and 83: the call succeeded; the row is in the staging table.
AddSucceeded ==
    /\ hr' = "S_OK"
    /\ LET dest == WcaAddTempRecordTable(hTable, SwitchTable(iMode))
           row  == IF SwitchTable(iMode) = "RemoveRegistry"
                   THEN RemoveRegistryRow(sczId, iRoot, sczKey, sczComponent)
                   ELSE RegistryRow(sczId, iRoot, sczKey, sczComponent)
       IN  /\ RemoveRegistry' = IF dest = "RemoveRegistry"
                                THEN Append(RemoveRegistry, row)
                                ELSE RemoveRegistry
           /\ Registry' = IF dest = "Registry"
                          THEN Append(Registry, row)
                          ELSE Registry
    /\ hTable' = "open"
    /\ hColumns' = "open"
    /\ addLog' = Append(addLog, [row |-> cursor, table |-> SwitchTable(iMode),
                                 ok |-> TRUE])
    /\ pc' = "FetchRecord"
    /\ UNCHANGED failedAt

\* Variant: the result of the call is not checked; the loop goes on.
AddFailed_Unchecked ==
    /\ hr' = "E_FAIL"
    /\ pc' = "FetchRecord"
    /\ failedAt' = [step |-> "AddTempRecord", row |-> cursor]
    /\ UNCHANGED << hTable, hColumns >>
    /\ addLog' = Append(addLog, [row |-> cursor, table |-> SwitchTable(iMode),
                                 ok |-> FALSE])
    /\ UNCHANGED << RemoveRegistry, Registry >>

\* Lines 79 and 84: the call failed.  It may have opened the view and
\* fetched the column types before failing; no row was inserted.
AddFailed ==
    /\ Fail("AddTempRecord")
    /\ \E t \in {hTable, "open"}, c \in {hColumns, "open"} :
          /\ (c = "open" => t = "open")
          /\ hTable' = t
          /\ hColumns' = c
    /\ addLog' = Append(addLog, [row |-> cursor, table |-> SwitchTable(iMode),
                                 ok |-> FALSE])
    /\ UNCHANGED << RemoveRegistry, Registry >>

\* Lines 76-80 and 81-85: one WcaAddTempRecord call for the table the
\* switch names.
AddTempRecord ==
    /\ pc = "Switch"
    /\ SwitchTable(iMode) # "none"
    /\ \/ AddSucceeded
       \/ AddFailed
    /\ UNCHANGED << input, hView, hRec, locals, cursor, er, evalLog,
                    readLog, fetchCalls >>
    /\ hAcquired' = hAcquired
          \cup (IF hTable = "NULL" /\ hTable' = "open" THEN {TableHandle} ELSE {})
          \cup (IF hColumns = "NULL" /\ hColumns' = "open"
                THEN {ColumnsHandle} ELSE {})
    /\ UNCHANGED << tableChecks, hReleased >>

\* Variant: a row whose mode has no case gets mode 0 written back to it.
SwitchNoCase_RewritesMode ==
    /\ pc = "Switch"
    /\ SwitchTable(iMode) = "none"
    /\ pc' = "FetchRecord"
    /\ table' = [table EXCEPT ![cursor].mode = 0]
    /\ UNCHANGED << tableExists, hr, hView, hRec, locals, staging, cursor,
                    er, evalLog, readLog, addLog, fetchCalls, failedAt >>
    /\ UNCHANGED << tableChecks, handleLog >>

\* Lines 74-86 with no matching case: the switch falls through.
SwitchNoCase ==
    /\ pc = "Switch"
    /\ SwitchTable(iMode) = "none"
    /\ pc' = "FetchRecord"
    /\ UNCHANGED << input, hr, hView, hRec, locals, staging, cursor, er,
                    evalLog, readLog, addLog, fetchCalls, failedAt >>
    /\ UNCHANGED << tableChecks, handleLog >>

\* Variant: a failed fetch is retried instead of ending the pass.
LoopEnd_Retry ==
    /\ pc = "AfterLoop"
    /\ hr' = AfterLoop(hr)
    /\ pc' = IF hr = "E_NOMOREITEMS" THEN "LExit" ELSE "FetchRecord"
    /\ UNCHANGED << input, hView, hRec, locals, staging, cursor, er,
                    evalLog, readLog, addLog, fetchCalls, failedAt >>
    /\ UNCHANGED << tableChecks, handleLog >>

\* Lines 89-94.
LoopEnd ==
    /\ pc = "AfterLoop"
    /\ hr' = AfterLoop(hr)
    /\ pc' = "LExit"
    /\ UNCHANGED << input, hView, hRec, locals, staging, cursor, er,
                    evalLog, readLog, addLog, fetchCalls, failedAt >>
    /\ UNCHANGED << tableChecks, handleLog >>

\* Lines 96-113: release the handles and strings, compute the status and
\* return it; hView and hRec are closed by their destructors on return.
LExit ==
    /\ pc = "LExit"
    /\ hColumns' = IF hColumns # "NULL" THEN "closed" ELSE hColumns
    /\ hTable' = IF hTable # "NULL" THEN "closed" ELSE hTable
    /\ hView' = IF hView # "NULL" THEN "closed" ELSE hView
    /\ hRec' = IF hRec # "NULL" THEN "closed" ELSE hRec
    /\ sczKey' = "NULL" /\ sczComponent' = "NULL"
    /\ sczCondition' = "NULL" /\ sczId' = "NULL"
    /\ er' = ExitStatus(hr)
    /\ pc' = "Done"
    /\ UNCHANGED << input, hr, iRoot, iMode, RemoveRegistry, Registry,
                    cursor, evalLog, readLog, addLog, fetchCalls, failedAt >>
    /\ hReleased' = Release(hView, ViewHandle,
                    Release(hRec, RecHandle(cursor),
                      Release(hTable, TableHandle,
                        Release(hColumns, ColumnsHandle, hReleased))))
    /\ UNCHANGED << tableChecks, hAcquired >>

Next ==
    \/ Initialize
    \/ TableExists
    \/ OpenExecuteView
    \/ FetchRecord
    \/ GetId
    \/ GetCondition
    \/ CheckCondition
    \/ GetComponent
    \/ GetRoot
    \/ GetKey
    \/ GetMode
    \/ AddTempRecord
    \/ SwitchNoCase
    \/ LoopEnd
    \/ LExit

Spec == Init /\ [][Next]_vars

\* The action runs on one thread and every engine call returns: a step that
\* can be taken is taken.
FairSpec == Spec /\ WF_vars(Next)

----------------------------------------------------------------------------
\* Vocabulary of the properties.  These definitions read the rule table and
\* the history, never the operators of the code above.

SUCCESS == "ERROR_SUCCESS"
FAILURE == "ERROR_INSTALL_FAILURE"

Rows == 1..Len(table)

\* The rule's condition is empty or the engine evaluates it to true.
Applicable(r) ==
    r.condition = "" \/ MsiEvaluateCondition(r.condition) = "MSICONDITION_TRUE"

\* The rule's condition is non-empty and evaluates to false or to invalid.
NotApplicable(r) ==
    /\ r.condition # ""
    /\ MsiEvaluateCondition(r.condition)
          \in {"MSICONDITION_FALSE", "MSICONDITION_ERROR"}

\* Positions of the rows of a staging table that carry the given id.
RowsFor(tbl, id) == { k \in 1..Len(tbl) : tbl[k][1] = id }

\* The iteration of row i has ended without a fatal error: the loop went
\* back to fetch, or a later row was fetched.
Processed(i) ==
    /\ i \in 1..cursor
    /\ \/ i < cursor
       \/ pc = "FetchRecord"
       \/ /\ pc \in {"AfterLoop", "LExit", "Done"}
          /\ failedAt.step \in {"none", "FetchRecord"}

ColumnReads == {"GetId", "GetCondition", "GetComponent", "GetRoot",
                "GetKey", "GetMode"}

\* C1: every rule of mode 1 (RemoveOnInstall) whose condition is empty or
\* true, once its iteration has ended without a fatal error, has exactly one
\* row in the RemoveRegistry staging table, of 5 columns
\* (id, root, key, "-", component) with the rule's own id, root, key and
\* component.
C1_RemoveOnInstallRow ==
    \A i \in Rows :
        (Processed(i) /\ table[i].mode = 1 /\ Applicable(table[i])) =>
            /\ Cardinality(RowsFor(RemoveRegistry, table[i].id)) = 1
            /\ \A k \in RowsFor(RemoveRegistry, table[i].id) :
                  /\ Len(RemoveRegistry[k]) = 5
                  /\ RemoveRegistry[k] = << table[i].id, table[i].root,
                                            table[i].key, "-",
                                            table[i].component >>

\* A finished pass staged the RemoveRegistry row of a mode-1 rule whose
\* condition was evaluated to true.
C1_Witness ==
    /\ pc = "Done"
    /\ \E i \in Rows :
          /\ table[i].mode = 1
          /\ table[i].condition = "1"
          /\ Processed(i)
          /\ RowsFor(RemoveRegistry, table[i].id) # {}

\* C2: every rule of mode 2 (RemoveOnUninstall) whose condition is empty or
\* true, once its iteration has ended without a fatal error, has exactly one
\* row in the Registry staging table, of 6 columns
\* (id, root, key, "-", <empty>, component) with the rule's own id, root,
\* key and component.
C2_RemoveOnUninstallRow ==
    \A i \in Rows :
        (Processed(i) /\ table[i].mode = 2 /\ Applicable(table[i])) =>
            /\ Cardinality(RowsFor(Registry, table[i].id)) = 1
            /\ \A k \in RowsFor(Registry, table[i].id) :
                  /\ Len(Registry[k]) = 6
                  /\ Registry[k] = << table[i].id, table[i].root,
                                      table[i].key, "-", "NULL",
                                      table[i].component >>

\* A finished pass staged the Registry row of a mode-2 rule whose condition
\* is empty.
C2_Witness ==
    /\ pc = "Done"
    /\ \E i \in Rows :
          /\ table[i].mode = 2
          /\ table[i].condition = ""
          /\ Processed(i)
          /\ RowsFor(Registry, table[i].id) # {}

RECURSIVE TranslatableUpTo(_)
TranslatableUpTo(n) ==
    IF n = 0 THEN 0
    ELSE TranslatableUpTo(n - 1)
         + (IF Applicable(table[n]) /\ table[n].mode \in {1, 2} THEN 1 ELSE 0)

\* C4: a rule whose non-empty condition evaluates to False or to Invalid
\* gets no row in either staging table and no staging call, whatever its
\* mode; neither outcome is an error (the only steps that can fail on such
\* a row are the reads of its id and condition), the row's remaining
\* columns are not reached, and the scan goes on: a pass without a failed
\* call fetches every row, stages every later applicable rule and ends in
\* success.
C4_FalseOrInvalidSkipped ==
    \A i \in Rows :
        NotApplicable(table[i]) =>
            /\ RowsFor(RemoveRegistry, table[i].id) = {}
            /\ RowsFor(Registry, table[i].id) = {}
            /\ \A n \in 1..Len(addLog) : addLog[n].row # i
            /\ (cursor = i) =>
                  pc \notin {"GetComponent", "GetRoot", "GetKey", "GetMode",
                             "Switch"}
            /\ (failedAt.row = i) =>
                  failedAt.step \in {"GetId", "GetCondition", "FetchRecord"}
            /\ (pc = "Done" /\ failedAt = NoFailure) =>
                  /\ er = SUCCESS
                  /\ cursor = Len(table)
                  /\ Len(RemoveRegistry) + Len(Registry)
                        = TranslatableUpTo(Len(table))

\* A pass skipped a rule with an invalid condition, staged the applicable
\* rule after it and ended in success.
C4_Witness ==
    /\ pc = "Done" /\ er = SUCCESS
    /\ Len(table) >= 2
    /\ table[1].condition = "1 +"
    /\ table[2].mode = 2 /\ Applicable(table[2])
    /\ RowsFor(Registry, table[2].id) # {}
    /\ evalLog = IF table[2].condition = "" THEN << 1 >> ELSE << 1, 2 >>

\* C5: a rule whose mode is neither 1 nor 2 gets no row in either staging
\* table and no staging call, raises no error of its own (on such a row only
\* a column read can fail), and the scan goes on: once its columns are read
\* the row's iteration is over, and a pass without a failed call fetches
\* every row and ends in success.
C5_UnrecognizedModeSkipped ==
    \A i \in Rows :
        table[i].mode \notin {1, 2} =>
            /\ RowsFor(RemoveRegistry, table[i].id) = {}
            /\ RowsFor(Registry, table[i].id) = {}
            /\ \A n \in 1..Len(addLog) : addLog[n].row # i
            /\ (failedAt.row = i) =>
                  failedAt.step \in ColumnReads \cup {"FetchRecord"}
            /\ (pc = "Done" /\ failedAt = NoFailure) =>
                  /\ er = SUCCESS
                  /\ cursor = Len(table)
                  /\ Processed(i)

\* A pass read all columns of an applicable rule of mode 3, staged nothing
\* for it, staged the rule after it and ended in success.
C5_Witness ==
    /\ pc = "Done" /\ er = SUCCESS
    /\ Len(table) >= 2
    /\ table[1].mode = 3 /\ Applicable(table[1])
    /\ << 1, "InstallMode" >> \in { readLog[n] : n \in 1..Len(readLog) }
    /\ table[2].mode = 1
    /\ RowsFor(RemoveRegistry, table[2].id) # {}

\* The rows the first n rules put in the RemoveRegistry staging table.
RECURSIVE ExpectedRemoveRegistry(_)
ExpectedRemoveRegistry(n) ==
    IF n = 0 THEN << >>
    ELSE IF Applicable(table[n]) /\ table[n].mode = 1
         THEN Append(ExpectedRemoveRegistry(n - 1),
                     << table[n].id, table[n].root, table[n].key, "-",
                        table[n].component >>)
         ELSE ExpectedRemoveRegistry(n - 1)

\* The rows the first n rules put in the Registry staging table.
RECURSIVE ExpectedRegistry(_)
ExpectedRegistry(n) ==
    IF n = 0 THEN << >>
    ELSE IF Applicable(table[n]) /\ table[n].mode = 2
         THEN Append(ExpectedRegistry(n - 1),
                     << table[n].id, table[n].root, table[n].key, "-",
                        "NULL", table[n].component >>)
         ELSE ExpectedRegistry(n - 1)

\* C6: when the rule table does not exist and initialization succeeded, the
\* pass never opens a cursor, fetches a record, reads a column, evaluates a
\* condition or calls a staging table, stages no row, and ends in success.
C6_TableMissingNoOp ==
    (~tableExists /\ failedAt.step # "Initialize") =>
        /\ hView = "NULL" /\ hRec = "NULL"
        /\ hTable = "NULL" /\ hColumns = "NULL"
        /\ fetchCalls = 0 /\ cursor = 0
        /\ readLog = << >> /\ evalLog = << >> /\ addLog = << >>
        /\ RemoveRegistry = << >> /\ Registry = << >>
        /\ failedAt = NoFailure
        /\ pc \in {"Initialize", "TableExists", "LExit", "Done"}
        /\ (pc = "Done") => er = SUCCESS

\* The pass ended in success on the missing table.
C6_Witness ==
    /\ ~tableExists
    /\ pc = "Done"
    /\ er = SUCCESS
    /\ fetchCalls = 0

\* C7: when the read of the id, component, root, key or mode column fails
\* on a fetched row, the pass is aborted at that row: control is at the
\* cleanup or past it, hr is a failure, no further record is fetched, and
\* the status returned is failure; this is so whatever the row's condition
\* and mode are.
C7_ColumnReadFailureAborts ==
    (failedAt.step \in {"GetId", "GetComponent", "GetRoot", "GetKey",
                        "GetMode"}) =>
        /\ failedAt.row \in Rows
        /\ pc \in {"LExit", "Done"}
        /\ FAILED(hr)
        /\ cursor = failedAt.row
        /\ fetchCalls = failedAt.row
        /\ readLog[Len(readLog)][1] = failedAt.row
        /\ (pc = "Done") => er = FAILURE

\* The read of the key column failed on a row of mode 3 whose condition had
\* been evaluated to true, and the pass ended in failure.
C7_Witness ==
    /\ pc = "Done" /\ er = FAILURE
    /\ failedAt.step = "GetKey"
    /\ failedAt.row \in Rows
    /\ table[failedAt.row].mode = 3
    /\ table[failedAt.row].condition = "1"

\* C8: once a call has failed at row N, nothing is done for a later row: the
\* number of fetches stays N, no read, evaluation or staging call is logged
\* for a row after N, and from the failure to the return the staging tables
\* hold exactly the rows of the applicable rules before N, unchanged and in
\* order.
C8_NothingAfterAbort ==
    (failedAt # NoFailure /\ failedAt.step \notin {"Initialize",
                                                   "OpenExecuteView"}) =>
        LET N == failedAt.row IN
        /\ fetchCalls = N
        /\ cursor = IF failedAt.step = "FetchRecord" THEN N - 1 ELSE N
        /\ \A n \in 1..Len(readLog) : readLog[n][1] <= N
        /\ \A n \in 1..Len(evalLog) : evalLog[n] <= N
        /\ \A n \in 1..Len(addLog) : addLog[n].row <= N
        /\ RemoveRegistry = ExpectedRemoveRegistry(N - 1)
        /\ Registry = ExpectedRegistry(N - 1)
        /\ pc \in {"AfterLoop", "LExit", "Done"}

\* The pass aborted on its first row and returned; the valid, applicable
\* row after it was never fetched and has no staged row.
C8_Witness ==
    /\ pc = "Done" /\ er = FAILURE
    /\ Len(table) >= 2
    /\ failedAt.row = 1 /\ failedAt.step = "GetKey"
    /\ table[2].mode = 1 /\ Applicable(table[2])
    /\ RemoveRegistry = << >> /\ Registry = << >>

\* C9: when a staging-table append fails for a rule, of either mode, the
\* pass is aborted at once with failure: the rule has no row in either
\* table, no later record is fetched, the rows staged by the earlier rules
\* are all in place, and the status returned is failure.
C9_AppendFailureAborts ==
    (failedAt.step = "AddTempRecord") =>
        LET N == failedAt.row IN
        /\ N \in Rows
        /\ table[N].mode \in {1, 2}
        /\ pc \in {"LExit", "Done"}
        /\ FAILED(hr)
        /\ RowsFor(RemoveRegistry, table[N].id) = {}
        /\ RowsFor(Registry, table[N].id) = {}
        /\ cursor = N /\ fetchCalls = N
        /\ addLog[Len(addLog)] = [row |-> N,
                                  table |-> IF table[N].mode = 1
                                            THEN "RemoveRegistry"
                                            ELSE "Registry",
                                  ok |-> FALSE]
        /\ RemoveRegistry = ExpectedRemoveRegistry(N - 1)
        /\ Registry = ExpectedRegistry(N - 1)
        /\ (pc = "Done") => er = FAILURE

\* The append of the second rule, of mode 2, failed after the first rule's
\* row had been staged; the pass returned failure with that row in place.
C9_Witness ==
    /\ pc = "Done" /\ er = FAILURE
    /\ failedAt = [step |-> "AddTempRecord", row |-> 2]
    /\ table[2].mode = 2
    /\ Len(RemoveRegistry) + Len(Registry) = 1

\* The pass ended on the branch of the missing table.
EndedTableMissing ==
    ~tableExists /\ failedAt = NoFailure /\ fetchCalls = 0

\* The pass ended on the cursor's end-of-data, every row before it having
\* been skipped or translated without error.
EndedEndOfData ==
    /\ tableExists /\ failedAt = NoFailure
    /\ cursor = Len(table)
    /\ fetchCalls = Len(table) + 1
    /\ \A i \in Rows : Processed(i)
    /\ RemoveRegistry = ExpectedRemoveRegistry(Len(table))
    /\ Registry = ExpectedRegistry(Len(table))

\* C10: the status returned is success exactly when the pass ended on the
\* missing table or on end-of-data, and failure exactly when the
\* initialization, the opening of the cursor, a fetch, a column read or a
\* staging append failed; end-of-data never gives failure.
C10_ExitStatus ==
    (pc = "Done") =>
        /\ er \in {SUCCESS, FAILURE}
        /\ (er = SUCCESS) <=> (EndedTableMissing \/ EndedEndOfData)
        /\ (er = FAILURE) <=>
              failedAt.step \in {"Initialize", "OpenExecuteView",
                                 "FetchRecord", "AddTempRecord"}
                                 \cup ColumnReads
        /\ EndedEndOfData => (er = SUCCESS /\ hr = "S_OK")

\* The pass ran over a table of two rows to end-of-data and returned
\* success.
C10_Witness ==
    /\ pc = "Done" /\ er = SUCCESS
    /\ Len(table) = 2
    /\ EndedEndOfData

\* The set of the elements of a sequence.
Range(q) == { q[n] : n \in 1..Len(q) }

\* No element occurs twice in the sequence.
NoDuplicates(q) == \A m, n \in 1..Len(q) : q[m] = q[n] => m = n

\* C11: on every exit path every handle the pass acquired (the cursor's
\* view, the records, the staging view and columns handles) has been closed
\* when the status is returned: none is left open, none is closed twice,
\* and nothing is closed that was not acquired.
C11_HandlesReleased ==
    /\ NoDuplicates(hReleased)
    /\ Range(hReleased) \subseteq hAcquired
    /\ (hView = "open") => ViewHandle \in hAcquired \ Range(hReleased)
    /\ (hRec = "open") => RecHandle(cursor) \in hAcquired \ Range(hReleased)
    /\ (hTable = "open") => TableHandle \in hAcquired \ Range(hReleased)
    /\ (hColumns = "open") =>
          ColumnsHandle \in hAcquired \ Range(hReleased)
    /\ (pc = "Done") =>
          /\ Range(hReleased) = hAcquired
          /\ "open" \notin {hView, hRec, hTable, hColumns}

\* A pass that aborted on the staging append of its second row returned
\* with the view, both records and both staging handles closed.
C11_Witness ==
    /\ pc = "Done"
    /\ failedAt = [step |-> "AddTempRecord", row |-> 2]
    /\ hAcquired = {ViewHandle, RecHandle(1), RecHandle(2), TableHandle,
                    ColumnsHandle}
    /\ Len(hReleased) = 5

\* Every column of row i has been read.
AllColumnsRead(i) ==
    { << i, "Id" >>, << i, "Condition" >>, << i, "Component_" >>,
      << i, "Root" >>, << i, "Key" >>, << i, "InstallMode" >> }
        \subseteq Range(readLog)

\* C12: the condition evaluator is called only for rows whose condition is
\* non-empty, and at most once for a row; a rule with an empty condition is
\* treated as applicable without a call: once its iteration has ended all
\* its columns have been read and, when its mode is 1 or 2, its row is
\* staged.
C12_EmptyConditionNotEvaluated ==
    /\ \A n \in 1..Len(evalLog) :
          /\ evalLog[n] \in 1..cursor
          /\ table[evalLog[n]].condition # ""
    /\ NoDuplicates(evalLog)
    /\ \A i \in Rows :
          (Processed(i) /\ table[i].condition = "") =>
             /\ i \notin Range(evalLog)
             /\ AllColumnsRead(i)
             /\ table[i].mode \in {1, 2} =>
                   RowsFor(RemoveRegistry, table[i].id)
                      \cup RowsFor(Registry, table[i].id) # {}

\* A finished pass staged a rule with an empty condition without a call of
\* the evaluator, and called it once for the rule after it.
C12_Witness ==
    /\ pc = "Done"
    /\ Len(table) >= 2
    /\ table[1].condition = "" /\ table[1].mode = 1
    /\ RowsFor(RemoveRegistry, table[1].id) # {}
    /\ table[2].condition # ""
    /\ evalLog = << 2 >>

\* The iteration of row i is over: the row was skipped on its condition, or
\* all its columns were read and, for mode 1 or 2, the staging call made.
RowDone(i) ==
    \/ NotApplicable(table[i]) /\ << i, "Condition" >> \in Range(readLog)
    \/ /\ AllColumnsRead(i)
       /\ table[i].mode \in {1, 2} =>
             \E n \in 1..Len(addLog) : addLog[n].row = i /\ addLog[n].ok

\* The index of the rule a staged row carries the id of.
RuleOf(row) == CHOOSE i \in Rows : table[i].id = row[1]

\* The rows of a log or staging table, by rule index, never go back.
Ascending(q) == \A m, n \in 1..Len(q) : m < n => q[m] < q[n]

\* C13: the rules are processed one at a time in cursor order: when row N+1
\* has been fetched the iteration of every row up to N is over, the reads,
\* evaluations and staging calls are logged in row order, and within each
\* staging table the rows stand in the order of their rules.
C13_SequentialInCursorOrder ==
    /\ \A i \in 1..(cursor - 1) : RowDone(i)
    /\ cursor <= fetchCalls /\ fetchCalls <= cursor + 1
    /\ \A m, n \in 1..Len(readLog) : m < n => readLog[m][1] <= readLog[n][1]
    /\ Ascending(evalLog)
    /\ Ascending([n \in 1..Len(addLog) |-> addLog[n].row])
    /\ Ascending([k \in 1..Len(RemoveRegistry) |-> RuleOf(RemoveRegistry[k])])
    /\ Ascending([k \in 1..Len(Registry) |-> RuleOf(Registry[k])])

\* Two rules of mode 1 were staged one after the other and their rows stand
\* in RemoveRegistry in the order of the rules.
C13_Witness ==
    /\ pc = "Done"
    /\ Len(RemoveRegistry) = 2
    /\ RemoveRegistry[1][1] = table[1].id
    /\ RemoveRegistry[2][1] = table[2].id

\* The state of the pass: Idle until the cursor is open, Scanning in the
\* loop, TableMissing or Done from the cleanup on after a pass without a
\* failed call, Aborted from the failed call on.
PassState ==
    IF failedAt # NoFailure THEN "Aborted"
    ELSE IF pc \in {"Initialize", "TableExists", "OpenExecuteView"} THEN "Idle"
    ELSE IF pc \in {"LExit", "Done"}
         THEN (IF fetchCalls = 0 THEN "TableMissing" ELSE "Done")
         ELSE "Scanning"

Terminal == {"TableMissing", "Done", "Aborted"}

\* The transitions of the pass as the specification lists them.
ListedTransitions ==
    { << "Idle", "TableMissing" >>, << "Idle", "Scanning" >>,
      << "Scanning", "Done" >>, << "Scanning", "Aborted" >> }

\* The distance of a position in the code from the return.
Rank(p) ==
    CASE p = "Done"            -> 0
      [] p = "LExit"           -> 1
      [] p = "AfterLoop"       -> 2
      [] p = "FetchRecord"     -> 3
      [] p = "Switch"          -> 4
      [] p = "GetMode"         -> 5
      [] p = "GetKey"          -> 6
      [] p = "GetRoot"         -> 7
      [] p = "GetComponent"    -> 8
      [] p = "CheckCondition"  -> 9
      [] p = "GetCondition"    -> 10
      [] p = "GetId"           -> 11
      [] p = "OpenExecuteView" -> 12
      [] p = "TableExists"     -> 13
      [] p = "Initialize"      -> 14

\* A bound on the number of steps left: the fetches left, each worth one
\* turn of the loop, and the steps left in this turn.
StepsLeft == (Len(table) + 1 - fetchCalls) * 12 + Rank(pc)

\* The pass terminates: it is never stuck before the return, every step
\* brings it nearer to the return, and under FairSpec it returns.
Terminates ==
    /\ [](StepsLeft >= 0 /\ (pc = "Done" \/ ENABLED Next))
    /\ [][StepsLeft' < StepsLeft]_vars
    /\ <>(pc = "Done")

\* A terminal state is never left, and after a failed call no engine call
\* is made again.
TerminalIsFinal ==
    [][ /\ PassState \in Terminal => PassState' = PassState
        /\ PassState = "Aborted" =>
              /\ failedAt' = failedAt
              /\ fetchCalls' = fetchCalls /\ tableChecks' = tableChecks
              /\ readLog' = readLog /\ evalLog' = evalLog
              /\ addLog' = addLog ]_vars

\* C14 as stated: the pass terminates, follows only the four listed
\* transitions, and never leaves a terminal state or retries a failed step.
C14_ListedTransitionsOnly ==
    /\ Terminates
    /\ TerminalIsFinal
    /\ [][PassState' # PassState =>
             << PassState, PassState' >> \in ListedTransitions]_vars

\* C14, amended: the pass terminates, follows only the four listed
\* transitions and Idle -> Aborted (a failed initialization or a failed
\* opening of the cursor), and never leaves a terminal state or retries a
\* failed step.
C14_Transitions ==
    /\ Terminates
    /\ TerminalIsFinal
    /\ [][PassState' # PassState =>
             << PassState, PassState' >> \in
                ListedTransitions \cup { << "Idle", "Aborted" >> }]_vars

\* The pass returned in the state Aborted without having scanned: the
\* opening of the cursor failed.
C14_Witness ==
    /\ pc = "Done"
    /\ PassState = "Aborted"
    /\ failedAt.step = "OpenExecuteView"
    /\ fetchCalls = 0

\* How far rule i has come: 0 not fetched, 1 Loaded, 2 Evaluated as
\* applicable, 3 Skipped or Translated.  A rule on which a call failed stays
\* where it was.
Stage(i) ==
    IF i > cursor THEN 0
    ELSE IF Processed(i) THEN 3
    ELSE IF \/ pc \in {"GetComponent", "GetRoot", "GetKey", "GetMode",
                       "Switch"}
            \/ failedAt.step \in {"GetComponent", "GetRoot", "GetKey",
                                  "GetMode", "AddTempRecord"}
         THEN 2
         ELSE 1

\* Number of rows staged for rule i, both staging tables together.
StagedFor(i) ==
    Cardinality(RowsFor(RemoveRegistry, table[i].id))
       + Cardinality(RowsFor(Registry, table[i].id))

\* C15: every rule is fetched at most once (the cursor moves on by one row
\* at a fetch and never back, and no column of a row is read twice) and
\* has at most one staged row, both tables together; the number of staged
\* rows is never above the number of rows fetched; a rule has a staged row
\* only once it is Translated; and no rule goes back through
\* Loaded -> Evaluated -> Skipped/Translated.
C15_AtMostOneRowPerRule ==
    /\ [](/\ \A i \in Rows :
               /\ StagedFor(i) <= 1
               /\ StagedFor(i) = 1 => Stage(i) = 3
          /\ Len(RemoveRegistry) + Len(Registry) <= cursor
          /\ cursor <= Len(table)
          /\ NoDuplicates(readLog))
    /\ [][ /\ cursor' \in {cursor, cursor + 1}
           /\ cursor' # cursor => pc = "FetchRecord"
           /\ \A i \in Rows : Stage(i)' >= Stage(i) ]_vars

\* A finished pass fetched two rules, skipped the first on its condition
\* and staged one row for the second.
C15_Witness ==
    /\ pc = "Done"
    /\ cursor = 2
    /\ NotApplicable(table[1])
    /\ Stage(1) = 3 /\ Stage(2) = 3
    /\ StagedFor(1) = 0 /\ StagedFor(2) = 1

\* C16: no step changes the rule table: its existence and its rows are at
\* every step what they were before it, on every path; what a step writes
\* outside the action's own variables are the two staging tables and the
\* status returned.
C16_RuleTableUnchanged ==
    [][ /\ table' = table
        /\ tableExists' = tableExists
        /\ (RemoveRegistry' # RemoveRegistry \/ Registry' # Registry) =>
              pc = "Switch"
        /\ er' # er => (pc = "LExit" /\ pc' = "Done") ]_vars

\* An aborted pass and its rule table, still of two rows, after a row was
\* staged.
C16_Witness ==
    /\ pc = "Done" /\ er = FAILURE
    /\ Len(table) = 2
    /\ Len(RemoveRegistry) + Len(Registry) = 1
    /\ \A i \in Rows : table[i].id = RuleId(i)

\* C17: when the initialization fails, or the table exists and the opening
\* of the cursor fails, the pass goes to the cleanup and returns failure
\* without a fetch, a column read, an evaluation or a staging call and with
\* nothing staged; after a failed initialization the existence of the table
\* has not been checked either.
C17_EarlyFailure ==
    (failedAt.step \in {"Initialize", "OpenExecuteView"}) =>
        /\ pc \in {"LExit", "Done"}
        /\ FAILED(hr)
        /\ fetchCalls = 0 /\ cursor = 0
        /\ readLog = << >> /\ evalLog = << >> /\ addLog = << >>
        /\ RemoveRegistry = << >> /\ Registry = << >>
        /\ hRec = "NULL" /\ hTable = "NULL" /\ hColumns = "NULL"
        /\ (pc = "Done") => er = FAILURE
        /\ (failedAt.step = "Initialize") =>
              (tableChecks = 0 /\ hView = "NULL")
        /\ (failedAt.step = "OpenExecuteView") =>
              (tableChecks = 1 /\ tableExists)

\* The initialization failed on a table with a rule that would have been
\* staged, and the pass returned failure.
C17_Witness ==
    /\ pc = "Done" /\ er = FAILURE
    /\ failedAt.step = "Initialize"
    /\ Len(table) >= 1
    /\ table[1].mode = 1 /\ Applicable(table[1])

\* The columns of a row in the order the code reads them.
ReadOrder == << "Id", "Condition", "Component_", "Root", "Key",
                "InstallMode" >>

\* The columns of row i read so far, in the order of their reading.
ReadsOf(i) ==
    LET IsOfRow(e) == e[1] = i
        q == SelectSeq(readLog, IsOfRow)
    IN  [n \in 1..Len(q) |-> q[n][2]]

\* C18: within a row the columns are read in the order id, condition,
\* component, root, key, mode, and the condition is read and, when
\* non-empty, evaluated before the component is read; for a row whose
\* condition is False or Invalid only the id and the condition are ever
\* read, no staging call is made, and only those two reads can fail on it.
C18_ConditionBeforeOtherColumns ==
    \A i \in Rows :
       /\ ReadsOf(i) = SubSeq(ReadOrder, 1, Len(ReadsOf(i)))
       /\ (Len(ReadsOf(i)) >= 3 /\ table[i].condition # "") =>
             i \in Range(evalLog)
       /\ (i \in Range(evalLog)) => Len(ReadsOf(i)) >= 2
       /\ NotApplicable(table[i]) =>
             /\ Len(ReadsOf(i)) <= 2
             /\ \A n \in 1..Len(addLog) : addLog[n].row # i
             /\ (failedAt.row = i /\ failedAt.step \in ColumnReads) =>
                   failedAt.step \in {"GetId", "GetCondition"}
             /\ (i < cursor \/ (i = cursor /\ pc \in {"FetchRecord", "Done"}
                                /\ failedAt = NoFailure)) =>
                   (ReadsOf(i) = << "Id", "Condition" >>
                    /\ i \in Range(evalLog))

\* A finished pass read only the id and the condition of a row with a false
\* condition, and all six columns of the row after it.
C18_Witness ==
    /\ pc = "Done"
    /\ Len(table) >= 2
    /\ table[1].condition = "0"
    /\ ReadsOf(1) = << "Id", "Condition" >>
    /\ ReadsOf(2) = ReadOrder

\* The values a staged row carries from its rule: id, root, key, component.
FieldsOf(row) ==
    << row[1], row[2], row[3], row[Len(row)] >>

\* The fields of rule i, as FieldsOf lists them.
RuleFields(i) ==
    << table[i].id, table[i].root, table[i].key, table[i].component >>

\* C19: a staged row carries only values of the rule it was appended for:
\* the n-th successful staging call staged the fields of the rule fetched
\* at that time, and when control reaches the switch every local the row is
\* built from holds the value of the current rule, whatever the earlier
\* iterations, skipped rows among them, left in the locals.
C19_NoStaleValues ==
    /\ (pc = "Switch") =>
          /\ << sczId, iRoot, sczKey, sczComponent >> = RuleFields(cursor)
          /\ iMode = table[cursor].mode
          /\ sczCondition = table[cursor].condition
    /\ LET IsRemove(e) == e.ok /\ e.table = "RemoveRegistry"
           IsRegistry(e) == e.ok /\ e.table = "Registry"
           remove == SelectSeq(addLog, IsRemove)
           registry == SelectSeq(addLog, IsRegistry)
       IN  /\ Len(RemoveRegistry) = Len(remove)
           /\ Len(Registry) = Len(registry)
           /\ \A k \in 1..Len(RemoveRegistry) :
                 FieldsOf(RemoveRegistry[k]) = RuleFields(remove[k].row)
           /\ \A k \in 1..Len(Registry) :
                 FieldsOf(Registry[k]) = RuleFields(registry[k].row)

\* The locals held the component, root and key of a first rule of mode 3,
\* for which nothing was staged, and the row staged for the second rule
\* carries the second rule's own, different values.
C19_Witness ==
    /\ pc = "Done"
    /\ Len(table) >= 2
    /\ table[1].mode = 3 /\ Applicable(table[1])
    /\ table[1].component # table[2].component
    /\ table[2].mode = 2
    /\ Len(Registry) = 1
    /\ FieldsOf(Registry[1]) = RuleFields(2)

====
